---- MODULE Spec2Model ----
(***************************************************************************)
(* A model of graph.py: the Graph class (V, E, adj), its incremental       *)
(* construction, its representation conversions, its set algebra and its   *)
(* analyses (connectivity, Euler, Hamilton, tree centers, spanning trees,  *)
(* distance between subgraphs, central tree).                              *)
(*                                                                         *)
(* Vertex labels are strings in the source and are only ever compared      *)
(* (==, <, min, max, sorted); they are modelled by the integers            *)
(* 1..MaxVertex with the integer order.                                    *)
(*                                                                         *)
(* A Graph object holds three mutable containers (the set V, the set E,    *)
(* the dict adj).  Python variables and attributes hold references, so the *)
(* model keeps a heap: for every graph variable of the client program      *)
(* (a slot) the identity of the three containers its Graph refers to, and  *)
(* for every container its current contents.                               *)
(***************************************************************************)
EXTENDS Integers, Sequences, FiniteSets, TLC

VARIABLES heap, last, calls

vars == <<heap, last, calls>>

\* Vertex labels available to the client: 1..MaxVertex.
MaxVertex == 3

\* Total number of add_vertex, add_edge and transform calls the client makes
\* in one run (the accessors are not counted).
MaxCalls == 4

Vertex == 1..MaxVertex

\* Vertex labels available to the client that analyses one graph:
\* 1..MaxOrder, and the number of edges it gives the graph.
MaxOrder == 5

MaxSize == 4

\* The largest k the client passes to k_spanning_trees.
MaxK == 3

Node == 1..MaxOrder

\* The client's graph variables: g and h are built by hand, r receives the
\* value returned by the last transform.
Slots == {"g", "h", "r"}

-----------------------------------------------------------------------------
(* Python built-ins used by graph.py *)

min(u, v) == IF u <= v THEN u ELSE v

max(u, v) == IF u <= v THEN v ELSE u

\* Tuple comparison of two edges (lexicographic), as sorted(self.E) uses it.
EdgeLess(e, f) == e[1] < f[1] \/ (e[1] = f[1] /\ e[2] < f[2])

\* sorted(S) for a set of vertex labels.
RECURSIVE sortedV(_)
sortedV(S) ==
    IF S = {} THEN <<>>
    ELSE LET m == CHOOSE x \in S : \A y \in S : x <= y
         IN  <<m>> \o sortedV(S \ {m})

\* sorted(S) for a set of edges.
RECURSIVE sortedE(_)
sortedE(S) ==
    IF S = {} THEN <<>>
    ELSE LET m == CHOOSE x \in S : \A y \in S : x = y \/ EdgeLess(x, y)
         IN  <<m>> \o sortedE(S \ {m})

\* Insertion of x into an ascending list, keeping equal entries.
RECURSIVE insertSorted(_, _)
insertSorted(x, s) ==
    IF s = <<>> THEN <<x>>
    ELSE IF x <= Head(s) THEN <<x>> \o s
    ELSE <<Head(s)>> \o insertSorted(x, Tail(s))

\* sorted(l) for a list of vertex labels: every entry is kept.
RECURSIVE sortedList(_)
sortedList(l) ==
    IF l = <<>> THEN <<>> ELSE insertSorted(Head(l), sortedList(Tail(l)))

\* index = {v: i for i, v in enumerate(sorted(V))}, counted from 1.
indexOf(seq, v) == CHOOSE i \in 1..Len(seq) : seq[i] = v

Range(s) == {s[i] : i \in 1..Len(s)}

\* Every order in which a for loop may run over the set S: the iteration
\* order of a Python set is not fixed by its contents.
RECURSIVE IterationOrders(_)
IterationOrders(S) ==
    IF S = {} THEN {<<>>}
    ELSE UNION {{<<x>> \o t : t \in IterationOrders(S \ {x})} : x \in S}

-----------------------------------------------------------------------------
(* Graph values: [V, E, adj] *)

\* Graph(): lines 37-39 with no arguments.
EmptyGraph == [V |-> {}, E |-> {}, adj |-> <<>>]

\* add_vertex: no-op when v is present.
add_vertex(G, v) ==
    IF v \notin G.V
    THEN [V |-> G.V \cup {v}, E |-> G.E, adj |-> (v :> <<>>) @@ G.adj]
    ELSE G

\* add_edge with the membership test dropped: the pair and both neighbour
\* entries are added on every call.
add_edge_no_membership_test(G, u, v) ==
    IF u = v THEN [err |-> TRUE, g |-> G]
    ELSE LET G1 == add_vertex(G, u)
             G2 == add_vertex(G1, v)
             e  == <<min(u, v), max(u, v)>>
         IN  [err |-> FALSE,
              g   |-> [V   |-> G2.V,
                       E   |-> G2.E \cup {e},
                       adj |-> [G2.adj EXCEPT ![u] = Append(@, v),
                                              ![v] = Append(@, u)]]]

\* add_edge storing the pair as given instead of (min, max).
add_edge_as_given(G, u, v) ==
    IF u = v THEN [err |-> TRUE, g |-> G]
    ELSE LET G1 == add_vertex(G, u)
             G2 == add_vertex(G1, v)
             e  == <<u, v>>
         IN  IF e \notin G2.E
             THEN [err |-> FALSE,
                   g   |-> [V   |-> G2.V,
                            E   |-> G2.E \cup {e},
                            adj |-> [G2.adj EXCEPT ![u] = Append(@, v),
                                                   ![v] = Append(@, u)]]]
             ELSE [err |-> FALSE, g |-> G2]

\* add_edge testing u == v only after both add_vertex calls.
add_edge_late_test(G, u, v) ==
    LET G1 == add_vertex(G, u)
        G2 == add_vertex(G1, v)
        e  == <<min(u, v), max(u, v)>>
    IN  IF u = v THEN [err |-> TRUE, g |-> G2]
        ELSE IF e \notin G2.E
        THEN [err |-> FALSE,
              g   |-> [V   |-> G2.V,
                       E   |-> G2.E \cup {e},
                       adj |-> [G2.adj EXCEPT ![u] = Append(@, v),
                                              ![v] = Append(@, u)]]]
        ELSE [err |-> FALSE, g |-> G2]

\* add_edge: raises ValueError (err) before touching the graph when u == v;
\* g is the graph as the call leaves it.
add_edge(G, u, v) ==
    IF u = v THEN [err |-> TRUE, g |-> G]
    ELSE LET G1 == add_vertex(G, u)
             G2 == add_vertex(G1, v)
             e  == <<min(u, v), max(u, v)>>
         IN  IF e \notin G2.E
             THEN [err |-> FALSE,
                   g   |-> [V   |-> G2.V,
                            E   |-> G2.E \cup {e},
                            adj |-> [G2.adj EXCEPT ![u] = Append(@, v),
                                                   ![v] = Append(@, u)]]]
             ELSE [err |-> FALSE, g |-> G2]

\* A run of add_edge calls on one graph, as the constructors make them: the
\* first call that raises ends the run and the exception reaches the caller.
RECURSIVE add_edges(_, _)
add_edges(G, es) ==
    IF es = <<>> THEN [err |-> FALSE, g |-> G]
    ELSE LET r == add_edge(G, Head(es)[1], Head(es)[2])
         IN  IF r.err THEN [err |-> TRUE, g |-> r.g]
             ELSE add_edges(r.g, Tail(es))

\* Graph(vertices, edges): V is a copy of the vertices, adj starts with an
\* empty list per vertex, and the edges are added one by one in the order
\* the for loop meets them (es lists the edge set in that order).
Graph(vertices, es) ==
    add_edges([V   |-> vertices,
               E   |-> {},
               adj |-> [v \in vertices |-> <<>>]], es)

-----------------------------------------------------------------------------
(* Representation conversions *)

\* adjacency_matrix writing M[i][j] only, not M[j][i].
adjacency_matrix_one_way(G) ==
    LET vs == sortedV(G.V)
        n  == Cardinality(G.V)
    IN  [i \in 1..n |-> [j \in 1..n |->
            IF \E e \in G.E : indexOf(vs, e[1]) = i /\ indexOf(vs, e[2]) = j
            THEN 1 ELSE 0]]

\* adjacency_matrix: rows and columns follow sorted(V); each stored pair
\* (u, v) sets M[i][j] and M[j][i].
adjacency_matrix(G) ==
    LET vs == sortedV(G.V)
        n  == Cardinality(G.V)
    IN  [i \in 1..n |-> [j \in 1..n |->
            IF \E e \in G.E :
                   \/ indexOf(vs, e[1]) = i /\ indexOf(vs, e[2]) = j
                   \/ indexOf(vs, e[1]) = j /\ indexOf(vs, e[2]) = i
            THEN 1 ELSE 0]]

\* The cells (i, j), i < j, in the order of the two nested range loops.
RECURSIVE upper_triangle(_, _, _)
upper_triangle(i, j, n) ==
    IF i > n THEN <<>>
    ELSE IF j > n THEN upper_triangle(i + 1, i + 2, n)
    ELSE <<<<i, j>>>> \o upper_triangle(i, j + 1, n)

\* The label pair of each cell of cells.
RECURSIVE label_pairs(_, _)
label_pairs(cells, labels) ==
    IF cells = <<>> THEN <<>>
    ELSE <<<<labels[Head(cells)[1]], labels[Head(cells)[2]]>>>>
         \o label_pairs(Tail(cells), labels)

\* from_adjacency_matrix with the inner loop starting at i + 2.
from_adjacency_matrix_skip_next(M, labels) ==
    LET n     == Len(M)
        cells == SelectSeq(upper_triangle(1, 2, n),
                           LAMBDA c : c[2] > c[1] + 1 /\ M[c[1]][c[2]] # 0)
    IN  IF Len(labels) # n THEN [err |-> TRUE, g |-> EmptyGraph]
        ELSE add_edges(EmptyGraph, label_pairs(cells, labels))

\* from_adjacency_matrix(M, labels): ValueError when the label count is not
\* the row count; else one add_edge per nonzero cell above the diagonal.
from_adjacency_matrix(M, labels) ==
    LET n     == Len(M)
        cells == SelectSeq(upper_triangle(1, 2, n),
                           LAMBDA c : M[c[1]][c[2]] # 0)
    IN  IF Len(labels) # n THEN [err |-> TRUE, g |-> EmptyGraph]
        ELSE add_edges(EmptyGraph, label_pairs(cells, labels))

\* incidence_matrix: rows follow sorted(V), columns sorted(E); column k has
\* a 1 in the rows of the two endpoints of the k-th edge.
incidence_matrix(G) ==
    LET V_sorted == sortedV(G.V)
        E_sorted == sortedE(G.E)
    IN  [i \in 1..Len(V_sorted) |-> [k \in 1..Len(E_sorted) |->
            IF \/ indexOf(V_sorted, E_sorted[k][1]) = i
               \/ indexOf(V_sorted, E_sorted[k][2]) = i
            THEN 1 ELSE 0]]

\* verts = [labels[v] for v in range(n) if M[v][e] == 1]
RECURSIVE column_verts(_, _, _, _)
column_verts(M, labels, e, v) ==
    IF v > Len(M) THEN <<>>
    ELSE (IF M[v][e] = 1 THEN <<labels[v]>> ELSE <<>>)
         \o column_verts(M, labels, e, v + 1)

\* labels[v] raises IndexError in column e: a row v marked 1 has no label.
column_raises(M, labels, e) ==
    \E v \in 1..Len(M) : M[v][e] = 1 /\ v > Len(labels)

\* The loop over the columns e..m of from_incidence_matrix.
RECURSIVE from_incidence_columns(_, _, _, _, _)
from_incidence_columns(G, M, labels, e, m) ==
    IF e > m THEN [err |-> FALSE, g |-> G]
    ELSE IF column_raises(M, labels, e) THEN [err |-> TRUE, g |-> G]
    ELSE LET verts == column_verts(M, labels, e, 1)
         IN  IF Len(verts) # 2 THEN [err |-> TRUE, g |-> G]
             ELSE LET r == add_edge(G, verts[1], verts[2])
                  IN  IF r.err THEN [err |-> TRUE, g |-> r.g]
                      ELSE from_incidence_columns(r.g, M, labels, e + 1, m)

\* from_incidence_matrix(M, labels): m is the length of the first row (0
\* for no rows); ValueError for a column without exactly two 1s.
from_incidence_matrix(M, labels) ==
    LET n == Len(M)
        m == IF n # 0 THEN Len(M[1]) ELSE 0
    IN  from_incidence_columns(EmptyGraph, M, labels, 1, m)

\* adjacency_list without the sort: the lists as adj holds them.
adjacency_list_unsorted(G) ==
    [v \in DOMAIN G.adj |-> G.adj[v]]

\* adjacency_list: every key of adj with its neighbour list sorted.  Two
\* dicts are equal when they map the same keys to equal values, whatever
\* the order of their keys, so the value returned is the mapping.
adjacency_list(G) ==
    [v \in DOMAIN G.adj |-> sortedList(G.adj[v])]

\* The pairs (u, v) of the two nested loops of from_adjacency_list, the keys
\* taken in the order keys.
RECURSIVE list_pairs(_, _)
list_pairs(L, keys) ==
    IF keys = <<>> THEN <<>>
    ELSE [i \in 1..Len(L[Head(keys)]) |-> <<Head(keys), L[Head(keys)][i]>>]
         \o list_pairs(L, Tail(keys))

\* from_adjacency_list(L): one add_edge per listed neighbour.  keys is the
\* order in which the dict L yields its keys.
from_adjacency_list(L, keys) ==
    add_edges(EmptyGraph, list_pairs(L, keys))

\* degrees: the length of every neighbour list.
degrees(G) ==
    [v \in DOMAIN G.adj |-> Len(G.adj[v])]

-----------------------------------------------------------------------------
(* Set algebra and structural transforms.  Each operator yields the set of
   results the call can have: [err, g], one per order in which the
   constructor's loop may meet the edges of the set it is given. *)

\* _ensure_vertex raises ValueError for a vertex that is not in V.
ensure_vertex_raises(G, v) == v \notin G.V

Raised == [err |-> TRUE, g |-> EmptyGraph]

\* Graph(vertices=V, edges=E) for a set E.
GraphOf(vertices, edges) ==
    {Graph(vertices, es) : es \in IterationOrders(edges)}

union(G, H) ==
    LET V == G.V \cup H.V
        E == G.E \cup H.E
    IN  GraphOf(V, E)

\* intersection keeping every vertex of self.
intersection_keeps_own_vertices(G, H) ==
    LET V_common == G.V
        E_common == {e \in G.E \cap H.E : e[1] \in V_common /\ e[2] \in V_common}
    IN  GraphOf(V_common, E_common)

intersection(G, H) ==
    LET V_common == G.V \cap H.V
        E_common == {e \in G.E \cap H.E : e[1] \in V_common /\ e[2] \in V_common}
    IN  GraphOf(V_common, E_common)

\* symmetric_difference starting from the vertices met in the resulting
\* edges only.
symmetric_difference_edge_vertices(G, H) ==
    LET E == (G.E \ H.E) \cup (H.E \ G.E)
        verts_in_edges == UNION {{e[1], e[2]} : e \in E}
    IN  GraphOf(verts_in_edges, E)

symmetric_difference(G, H) ==
    LET V0 == G.V \cup H.V
        E  == (G.E \ H.E) \cup (H.E \ G.E)
        verts_in_edges == UNION {{e[1], e[2]} : e \in E}
        V  == V0 \cup verts_in_edges
    IN  GraphOf(V, E)

\* is_subgraph_of: both V and E are subsets of the other graph's.
is_subgraph_of(G, H) == G.V \subseteq H.V /\ G.E \subseteq H.E

\* without_vertex passing every edge of self to the constructor.
without_vertex_keeps_incident(G, v) ==
    IF ensure_vertex_raises(G, v) THEN {Raised}
    ELSE GraphOf(G.V \ {v}, G.E)

without_vertex(G, v) ==
    IF ensure_vertex_raises(G, v) THEN {Raised}
    ELSE LET V == G.V \ {v}
             E == {e \in G.E : v # e[1] /\ v # e[2]}
         IN  GraphOf(V, E)

without_edge(G, u, v) ==
    IF ensure_vertex_raises(G, u) \/ ensure_vertex_raises(G, v) THEN {Raised}
    ELSE LET e == <<min(u, v), max(u, v)>>
         IN  IF e \notin G.E THEN {Raised}
             ELSE GraphOf(G.V, G.E \ {e})

\* The pair (a, b) as the loop of merge_vertices rewrites it.
merged_pair(e, v1, v2) ==
    LET a_new == IF e[1] \in {v1, v2} THEN v1 ELSE e[1]
        b_new == IF e[2] \in {v1, v2} THEN v1 ELSE e[2]
    IN  <<a_new, b_new>>

merge_vertices(G, v1, v2) ==
    IF ensure_vertex_raises(G, v1) \/ ensure_vertex_raises(G, v2) THEN {Raised}
    ELSE LET new_V == G.V \ {v2}
             kept  == {e \in G.E : merged_pair(e, v1, v2)[1] # merged_pair(e, v1, v2)[2]}
             new_edges == {<<min(merged_pair(e, v1, v2)[1], merged_pair(e, v1, v2)[2]),
                             max(merged_pair(e, v1, v2)[1], merged_pair(e, v1, v2)[2])>>
                           : e \in kept}
         IN  GraphOf(new_V, new_edges)

-----------------------------------------------------------------------------
(* Connectivity, Euler, Hamilton.  A call whose outcome depends on the order
   in which a set is iterated yields the set of its possible outcomes. *)

\* Optional[...] return values.
None == [some |-> FALSE]

Some(x) == [some |-> TRUE, val |-> x]

\* _non_isolated_vertices: the keys of adj with a non-empty list.
non_isolated_vertices(G) == {v \in DOMAIN G.adj : G.adj[v] # <<>>}

\* The while loop of is_connected: pop the last entry of the stack, skip it
\* when visited, else visit it and push its unvisited neighbours in list
\* order.  Yields the visited set when the stack is empty.
RECURSIVE is_connected_loop(_, _, _)
is_connected_loop(G, stack, visited) ==
    IF stack = <<>> THEN visited
    ELSE LET u    == stack[Len(stack)]
             rest == SubSeq(stack, 1, Len(stack) - 1)
         IN  IF u \in visited THEN is_connected_loop(G, rest, visited)
             ELSE is_connected_loop(
                      G,
                      rest \o SelectSeq(G.adj[u], LAMBDA w : w \notin visited \cup {u}),
                      visited \cup {u})

\* is_connected comparing the visited set with V instead of non_iso.
is_connected_counts_isolated(G) ==
    IF G.V = {} THEN {TRUE}
    ELSE LET non_iso == non_isolated_vertices(G)
         IN  IF non_iso = {} THEN {TRUE}
             ELSE {is_connected_loop(G, <<start>>, {}) = G.V : start \in non_iso}

\* is_connected: one outcome per vertex next(iter(non_iso)) may yield.
is_connected(G) ==
    IF G.V = {} THEN {TRUE}
    ELSE LET non_iso == non_isolated_vertices(G)
         IN  IF non_iso = {} THEN {TRUE}
             ELSE {is_connected_loop(G, <<start>>, {}) = non_iso : start \in non_iso}

\* is_eulerian testing for an odd degree instead of an even one.
is_eulerian_odd(G) ==
    {IF ~c THEN FALSE
     ELSE \A v \in non_isolated_vertices(G) : Len(G.adj[v]) % 2 = 1
        : c \in is_connected(G)}

is_eulerian(G) ==
    {IF ~c THEN FALSE
     ELSE \A v \in non_isolated_vertices(G) : Len(G.adj[v]) % 2 = 0
        : c \in is_connected(G)}

\* backtrack(u) of hamiltonian_cycle, with path and visited as the call
\* finds them; u is the last entry of path.  Yields [ok, path]: the value
\* returned and path as the call leaves it (a failed call leaves path and
\* visited as it found them).  ws is what is left of sorted(self.adj[u]).
RECURSIVE backtrack(_, _, _, _, _, _)
RECURSIVE backtrack_for(_, _, _, _, _, _)
backtrack(G, start, n, path, visited, u) ==
    IF Len(path) = n
    THEN IF start \in Range(G.adj[u])
         THEN [ok |-> TRUE, path |-> Append(path, start)]
         ELSE [ok |-> FALSE, path |-> path]
    ELSE backtrack_for(G, start, n, path, visited, sortedList(G.adj[u]))

backtrack_for(G, start, n, path, visited, ws) ==
    IF ws = <<>> THEN [ok |-> FALSE, path |-> path]
    ELSE LET w == Head(ws)
         IN  IF w \notin visited
             THEN LET r == backtrack(G, start, n, Append(path, w),
                                     visited \cup {w}, w)
                  IN  IF r.ok THEN r
                      ELSE backtrack_for(G, start, n, path, visited, Tail(ws))
             ELSE backtrack_for(G, start, n, path, visited, Tail(ws))

\* hamiltonian_cycle: [] for a graph without vertices, else the path the
\* backtracking from the smallest vertex completes, or None.
hamiltonian_cycle(G) ==
    LET n == Cardinality(G.V)
    IN  IF n = 0 THEN Some(<<>>)
        ELSE LET start == sortedV(G.V)[1]
                 r     == backtrack(G, start, n, <<start>>, {start}, start)
             IN  IF r.ok THEN Some(r.path) ELSE None

\* has_hamiltonian_cycle: hamiltonian_cycle() is not None.
has_hamiltonian_cycle(G) == hamiltonian_cycle(G).some

-----------------------------------------------------------------------------
(* Trees *)

\* A call that raised, for calls that return a value.
RaisedValue == [err |-> TRUE, loops |-> FALSE]

Returned(x) == [err |-> FALSE, loops |-> FALSE, val |-> x]

Max(S) == CHOOSE x \in S : \A y \in S : y <= x

Min(S) == CHOOSE x \in S : \A y \in S : x <= y

\* is_tree: False for a graph without vertices, else is_connected() and
\* |E| = |V| - 1.
is_tree(G) ==
    IF G.V = {} THEN {FALSE}
    ELSE {c /\ Cardinality(G.E) = Cardinality(G.V) - 1 : c \in is_connected(G)}

\* degree(v): raises for v outside V.
degree_raises(G, v) == ensure_vertex_raises(G, v)

degree(G, v) == Len(G.adj[v])

\* The for loop over the leaves of one round of find_centers (ls: the
\* leaves still to come, in the order the set yields them).  For each leaf:
\* its first neighbour is read, the leaf is removed with without_vertex, and
\* the neighbour joins next_leaves when its degree is now 1.  Yields the
\* set of [err, g, next] the loop can end with: adj[leaf][0] raises for a
\* missing key or an empty list, without_vertex and degree for a vertex
\* that is not in V.
RECURSIVE remove_leaves(_, _, _)
remove_leaves(g_copy, ls, next_leaves) ==
    IF ls = <<>> THEN {[err |-> FALSE, g |-> g_copy, next |-> next_leaves]}
    ELSE LET leaf == Head(ls)
         IN  IF leaf \notin DOMAIN g_copy.adj \/ g_copy.adj[leaf] = <<>>
             THEN {[err |-> TRUE, g |-> g_copy, next |-> next_leaves]}
             ELSE LET neighbor == g_copy.adj[leaf][1]
                  IN  UNION {
                        IF r.err \/ degree_raises(r.g, neighbor)
                        THEN {[err |-> TRUE, g |-> g_copy, next |-> next_leaves]}
                        ELSE remove_leaves(
                                 r.g, Tail(ls),
                                 IF degree(r.g, neighbor) = 1
                                 THEN next_leaves \cup {neighbor}
                                 ELSE next_leaves)
                        : r \in without_vertex(g_copy, leaf)}

\* A call that never returns.
Loops == [err |-> FALSE, loops |-> TRUE]

\* find_centers stopping one round early (while n > 3).
RECURSIVE prune_early_stop(_, _, _)
prune_early_stop(g_copy, n, leaves) ==
    IF n > 3 /\ leaves = {} THEN {Loops}
    ELSE IF n > 3
    THEN UNION {
           UNION {IF r.err THEN {RaisedValue}
                  ELSE prune_early_stop(r.g, n - Cardinality(leaves), r.next)
                  : r \in remove_leaves(g_copy, ls, {})}
           : ls \in IterationOrders(leaves)}
    ELSE {Returned(sortedV(g_copy.V))}

\* The while loop of find_centers: n is lowered by the number of leaves,
\* the leaves are removed, the next round starts with next_leaves.  A round
\* without leaves changes nothing, and so does every round after it.
RECURSIVE prune(_, _, _)
prune(g_copy, n, leaves) ==
    IF n > 2 /\ leaves = {} THEN {Loops}
    ELSE IF n > 2
    THEN UNION {
           UNION {IF r.err THEN {RaisedValue}
                  ELSE prune(r.g, n - Cardinality(leaves), r.next)
                  : r \in remove_leaves(g_copy, ls, {})}
           : ls \in IterationOrders(leaves)}
    ELSE {Returned(sortedV(g_copy.V))}

\* find_centers: ValueError unless is_tree(); the work is done on a deep
\* copy, so self is the value g_copy starts from.
find_centers(G) ==
    UNION {IF ~t THEN {RaisedValue}
           ELSE LET n == Cardinality(G.V)
                IN  IF n <= 2 THEN {Returned(sortedV(G.V))}
                    ELSE prune(G, n, {v \in G.V : degree(G, v) = 1})
           : t \in is_tree(G)}

\* The for loop of a breadth-first search over the neighbours ws of u: a
\* neighbour without a distance gets dist[u] + 1 and joins the queue.
RECURSIVE bfs_for(_, _, _, _)
bfs_for(ws, u, dist, queue) ==
    IF ws = <<>> THEN [dist |-> dist, queue |-> queue]
    ELSE IF Head(ws) \notin DOMAIN dist
    THEN bfs_for(Tail(ws), u, (Head(ws) :> dist[u] + 1) @@ dist,
                 Append(queue, Head(ws)))
    ELSE bfs_for(Tail(ws), u, dist, queue)

\* The while loop of bfs: u = queue.pop(0), then the for loop over adj[u].
\* Yields dist.  (In vertex_eccentricities the queue holds (u, d) with
\* d = dist[u], and visited is the key set of dist.)
RECURSIVE bfs(_, _, _)
bfs(G, queue, dist) ==
    IF queue = <<>> THEN dist
    ELSE LET u == Head(queue)
             r == bfs_for(G.adj[u], u, dist, Tail(queue))
         IN  bfs(G, r.queue, r.dist)

\* vertex_eccentricities: ValueError unless is_tree(); else for every
\* vertex the largest distance of its search.
vertex_eccentricities(G) ==
    {IF ~t THEN RaisedValue
     ELSE Returned([v \in G.V |->
              LET distancias == bfs(G, <<v>>, v :> 0)
              IN  Max({distancias[w] : w \in DOMAIN distancias})])
        : t \in is_tree(G)}

\* radius: ValueError unless is_tree(); else the least eccentricity.
radius(G) ==
    UNION {IF ~t THEN {RaisedValue}
           ELSE {IF ecc.err THEN RaisedValue
                 ELSE Returned(Min({ecc.val[v] : v \in DOMAIN ecc.val}))
                    : ecc \in vertex_eccentricities(G)}
           : t \in is_tree(G)}

-----------------------------------------------------------------------------
(* Spanning trees *)

\* The for loop of find_spanning_tree over ws = sorted(self.adj[u]): an
\* unvisited neighbour is visited, queued, and its edge to u recorded.
RECURSIVE spanning_for(_, _, _, _, _)
spanning_for(ws, u, visited, queue, tree_edges) ==
    IF ws = <<>>
    THEN [visited |-> visited, queue |-> queue, tree_edges |-> tree_edges]
    ELSE LET v == Head(ws)
         IN  IF v \notin visited
             THEN spanning_for(Tail(ws), u, visited \cup {v}, Append(queue, v),
                               tree_edges \cup {<<min(u, v), max(u, v)>>})
             ELSE spanning_for(Tail(ws), u, visited, queue, tree_edges)

\* The while loop of find_spanning_tree.  Yields tree_edges.
RECURSIVE spanning_loop(_, _, _, _)
spanning_loop(G, queue, visited, tree_edges) ==
    IF queue = <<>> THEN tree_edges
    ELSE LET u == Head(queue)
             r == spanning_for(sortedList(G.adj[u]), u, visited, Tail(queue),
                               tree_edges)
         IN  spanning_loop(G, r.queue, r.visited, r.tree_edges)

\* find_spanning_tree(): ValueError unless is_connected(); the start is
\* sorted(self.V)[0], which raises IndexError for a graph without vertices.
find_spanning_tree(G) ==
    UNION {IF ~c THEN {Raised}
           ELSE IF G.V = {} THEN {Raised}
           ELSE LET start == sortedV(G.V)[1]
                IN  GraphOf(G.V, spanning_loop(G, <<start>>, {start}, {}))
           : c \in is_connected(G)}

\* dfs(u) of simple_path, with visited and path as the call finds them.
\* Yields [found, visited, path]: the value returned and the two shared
\* containers as the call leaves them.  ws is what is left of self.adj[u].
RECURSIVE simple_dfs(_, _, _, _, _)
RECURSIVE simple_dfs_for(_, _, _, _, _, _)
RECURSIVE simple_dfs_for_no_pop(_, _, _, _, _, _)
simple_dfs(G, u, goal, visited, path) ==
    IF u = goal
    THEN [found |-> TRUE, visited |-> visited \cup {u}, path |-> Append(path, u)]
    ELSE simple_dfs_for(G, u, goal, G.adj[u], visited \cup {u}, Append(path, u))

\* The same loop returning False without path.pop().
simple_dfs_for_no_pop(G, u, goal, ws, visited, path) ==
    IF ws = <<>>
    THEN [found |-> FALSE, visited |-> visited, path |-> path]
    ELSE LET w == Head(ws)
         IN  IF w \notin visited
             THEN LET r == simple_dfs(G, w, goal, visited, path)
                  IN  IF r.found THEN r
                      ELSE simple_dfs_for(G, u, goal, Tail(ws), r.visited, r.path)
             ELSE simple_dfs_for(G, u, goal, Tail(ws), visited, path)

\* for w in self.adj[u]: the first unvisited neighbour whose search finds
\* the goal ends the loop; after the loop u is taken off the path.
simple_dfs_for(G, u, goal, ws, visited, path) ==
    IF ws = <<>>
    THEN [found |-> FALSE, visited |-> visited,
          path |-> SubSeq(path, 1, Len(path) - 1)]
    ELSE LET w == Head(ws)
         IN  IF w \notin visited
             THEN LET r == simple_dfs(G, w, goal, visited, path)
                  IN  IF r.found THEN r
                      ELSE simple_dfs_for(G, u, goal, Tail(ws), r.visited, r.path)
             ELSE simple_dfs_for(G, u, goal, Tail(ws), visited, path)

\* simple_path(start, goal): ValueError for an argument outside V, else the
\* path the search from start holds when it reaches goal, or None.
simple_path(G, start, goal) ==
    IF ensure_vertex_raises(G, start) \/ ensure_vertex_raises(G, goal)
    THEN RaisedValue
    ELSE LET r == simple_dfs(G, start, goal, {}, <<>>)
         IN  Returned(IF r.found THEN Some(r.path) ELSE None)

\* list.reverse()
RECURSIVE reverse(_)
reverse(l) == IF l = <<>> THEN <<>> ELSE Append(reverse(Tail(l)), Head(l))

\* while x != w: x = parent[x]; cycle.append(x)
RECURSIVE climb(_, _, _, _)
climb(cycle, x, w, parent) ==
    IF x # w THEN climb(Append(cycle, parent[x]), parent[x], w, parent)
    ELSE cycle

\* dfs(u, p) of cycle_containing, with visited and parent as the call finds
\* them (p = 0 stands for None).  Yields [c, visited, parent]: the value
\* returned and the two shared containers as the call leaves them.  ws is
\* what is left of self.adj[u].
RECURSIVE cycle_dfs(_, _, _, _, _)
RECURSIVE cycle_dfs_for(_, _, _, _, _, _)
cycle_dfs(G, u, p, visited, parent) ==
    cycle_dfs_for(G, u, p, G.adj[u], visited \cup {u}, parent)

\* The same loop without the test w == p.
cycle_dfs_for_no_parent_test(G, u, p, ws, visited, parent) ==
    IF ws = <<>> THEN [c |-> None, visited |-> visited, parent |-> parent]
    ELSE LET w == Head(ws)
         IN  IF w \in visited
             THEN [c |-> Some(reverse(climb(<<w, u>>, u, w, parent))),
                   visited |-> visited, parent |-> parent]
             ELSE LET parent1 == (w :> u) @@ parent
                      r       == cycle_dfs(G, w, u, visited, parent1)
                  IN  IF r.c.some THEN r
                      ELSE cycle_dfs_for(G, u, p, Tail(ws), r.visited, r.parent)

cycle_dfs_for(G, u, p, ws, visited, parent) ==
    IF ws = <<>> THEN [c |-> None, visited |-> visited, parent |-> parent]
    ELSE LET w == Head(ws)
         IN  IF w = p THEN cycle_dfs_for(G, u, p, Tail(ws), visited, parent)
             ELSE IF w \in visited
             THEN [c |-> Some(reverse(climb(<<w, u>>, u, w, parent))),
                   visited |-> visited, parent |-> parent]
             ELSE LET parent1 == (w :> u) @@ parent
                      r       == cycle_dfs(G, w, u, visited, parent1)
                  IN  IF r.c.some THEN r
                      ELSE cycle_dfs_for(G, u, p, Tail(ws), r.visited, r.parent)

\* cycle_containing(v): ValueError for v outside V, else the first cycle
\* the search from v closes (first vertex repeated at the end), or None.
cycle_containing(G, v) ==
    IF ensure_vertex_raises(G, v) THEN RaisedValue
    ELSE Returned(cycle_dfs(G, v, 0, {}, <<>>).c)

\* fundamental_cycle(edge): the cycle found from edge[0], as the list of
\* the pairs (entry i, entry i + 1 modulo the length), each as (min, max).
fundamental_cycle(G, edge) ==
    LET cv == cycle_containing(G, edge[1])
    IN  IF cv.err THEN RaisedValue
        ELSE IF ~cv.val.some \/ Len(cv.val.val) < 2 THEN Returned(None)
        ELSE LET cycle_vertices == cv.val.val
                 n == Len(cycle_vertices)
             IN  Returned(Some(
                   [i \in 1..n |->
                       <<min(cycle_vertices[i], cycle_vertices[(i % n) + 1]),
                         max(cycle_vertices[i], cycle_vertices[(i % n) + 1])>>]))

\* The graphs Graph(vertices, edges) can be, told apart by V and E only.
ShapeOf(vertices, edges) ==
    {[err |-> t.err, V |-> t.g.V, E |-> t.g.E] : t \in GraphOf(vertices, edges)}

\* The state of k_spanning_trees between two steps: the keys seen, the
\* results so far (each graph by its V and E), the queue (each graph by its
\* E, the only attribute read from it), whether the return inside the loops
\* was taken, and whether an exception was raised.
EnumStart(base_E) ==
    [seen |-> {base_E}, results |-> <<>>, queue |-> <<base_E>>,
     ret |-> FALSE, err |-> FALSE]

\* for f in cycle: ...  (fs: what is left of cycle)
RECURSIVE exchange_for(_, _, _, _, _, _)
exchange_for(G, extended_edges, e, fs, st, k) ==
    IF fs = <<>> THEN {st}
    ELSE LET f == Head(fs)
         IN  IF f = e THEN exchange_for(G, extended_edges, e, Tail(fs), st, k)
             ELSE UNION {
                    IF new_tree.err THEN {[st EXCEPT !.err = TRUE]}
                    ELSE LET key == new_tree.E
                         IN  IF key \notin st.seen
                             THEN LET st1 == [st EXCEPT
                                       !.seen = @ \cup {key},
                                       !.results = Append(@, [V |-> new_tree.V,
                                                              E |-> new_tree.E]),
                                       !.queue = Append(@, new_tree.E)]
                                  IN  IF Len(st1.results) = k
                                      THEN {[st1 EXCEPT !.ret = TRUE]}
                                      ELSE exchange_for(G, extended_edges, e,
                                                        Tail(fs), st1, k)
                             ELSE exchange_for(G, extended_edges, e,
                                               Tail(fs), st, k)
                    : new_tree \in ShapeOf(G.V, extended_edges \ {f})}

\* for e in non_tree_edges: ...  (es: the edges still to come, in the order
\* the set yields them).  Iterating over cycle raises TypeError when
\* fundamental_cycle returned None.
RECURSIVE non_tree_for(_, _, _, _, _)
non_tree_for(G, current_edges, es, st, k) ==
    IF es = <<>> THEN {st}
    ELSE LET e == Head(es)
             extended_edges == current_edges \cup {e}
             cycles == {IF temp_graph.err THEN RaisedValue
                        ELSE fundamental_cycle(temp_graph.g, e)
                           : temp_graph \in GraphOf(G.V, extended_edges)}
         IN  UNION {
               IF cycle.err \/ ~cycle.val.some THEN {[st EXCEPT !.err = TRUE]}
               ELSE UNION {
                      IF st1.err \/ st1.ret THEN {st1}
                      ELSE non_tree_for(G, current_edges, Tail(es), st1, k)
                      : st1 \in exchange_for(G, extended_edges, e,
                                             cycle.val.val, st, k)}
               : cycle \in cycles}

\* while queue and len(results) < k: ...
RECURSIVE enum_loop(_, _, _)
enum_loop(G, st, k) ==
    IF st.queue = <<>> \/ ~(Len(st.results) < k) THEN {st}
    ELSE LET current_edges  == Head(st.queue)
             non_tree_edges == G.E \ current_edges
             st0            == [st EXCEPT !.queue = Tail(@)]
         IN  UNION {
               UNION {IF st1.err \/ st1.ret THEN {st1}
                      ELSE enum_loop(G, st1, k)
                      : st1 \in non_tree_for(G, current_edges, es, st0, k)}
               : es \in IterationOrders(non_tree_edges)}

\* k_spanning_trees(base_tree, k): base_E is base_tree.E.  Yields the lists
\* the call can return.
k_spanning_trees(G, base_E, k) ==
    {IF st.err THEN RaisedValue ELSE Returned(st.results)
        : st \in enum_loop(G, EnumStart(base_E), k)}

\* is_subgraph_tree(tree_a1): tree_a1.is_tree() and tree_a1 is a subgraph.
is_subgraph_tree(G, tree_a1) ==
    {IF ~t THEN FALSE ELSE is_subgraph_of(tree_a1, G) : t \in is_tree(tree_a1)}

\* is_spanning_tree(tree_a1): is_subgraph_tree and the same vertex set.
is_spanning_tree(G, tree_a1) ==
    {IF ~t THEN FALSE ELSE G.V = tree_a1.V : t \in is_subgraph_tree(G, tree_a1)}

-----------------------------------------------------------------------------
(* Distance between two subgraphs; central tree *)

\* The seeding loop of _min_distance_between_sets over S1 in the order vs.
RECURSIVE seed(_, _, _, _)
seed(G, vs, visited, queue) ==
    IF vs = <<>> THEN [err |-> FALSE, visited |-> visited, queue |-> queue]
    ELSE IF ensure_vertex_raises(G, Head(vs))
    THEN [err |-> TRUE, visited |-> visited, queue |-> queue]
    ELSE seed(G, Tail(vs), (Head(vs) :> 0) @@ visited, Append(queue, Head(vs)))

\* The same loop testing membership in S2 when a vertex is discovered and
\* never for the seeds.
RECURSIVE distance_loop_skips_seeds(_, _, _, _)
distance_loop_skips_seeds(G, S2, queue, visited) ==
    IF queue = <<>> THEN None
    ELSE LET u == Head(queue)
         IN  IF u \in S2 /\ visited[u] > 0 THEN Some(visited[u])
             ELSE LET r == bfs_for(G.adj[u], u, visited, Tail(queue))
                  IN  distance_loop_skips_seeds(G, S2, r.queue, r.dist)

\* The while loop of _min_distance_between_sets: the first vertex of S2
\* taken from the queue ends the search with its distance.
RECURSIVE distance_loop(_, _, _, _)
distance_loop(G, S2, queue, visited) ==
    IF queue = <<>> THEN None
    ELSE LET u == Head(queue)
         IN  IF u \in S2 THEN Some(visited[u])
             ELSE LET r == bfs_for(G.adj[u], u, visited, Tail(queue))
                  IN  distance_loop(G, S2, r.queue, r.dist)

\* _min_distance_between_sets(S1, S2): None when either set is empty, else
\* the multi-source search; one outcome per iteration order of S1.
min_distance_between_sets(G, S1, S2) ==
    IF S1 = {} \/ S2 = {} THEN {Returned(None)}
    ELSE {LET s == seed(G, vs, <<>>, <<>>)
          IN  IF s.err THEN RaisedValue
              ELSE Returned(distance_loop(G, S2, s.queue, s.visited))
             : vs \in IterationOrders(S1)}

\* distance_between_trees testing A1 only.
distance_between_trees_first_only(G, A1, A2) ==
    IF ~is_subgraph_of(A1, G) THEN {RaisedValue}
    ELSE min_distance_between_sets(G, A1.V, A2.V)

\* distance_between_trees(A1, A2): ValueError unless both are subgraphs.
distance_between_trees(G, A1, A2) ==
    IF ~is_subgraph_of(A1, G) \/ ~is_subgraph_of(A2, G) THEN {RaisedValue}
    ELSE min_distance_between_sets(G, A1.V, A2.V)

\* float("inf"), above every distance between two vertices.
inf == 1000

\* _eccentricities_general: ValueError unless is_connected(); else for
\* every vertex the largest distance of its search, or inf when the search
\* does not reach every vertex.
eccentricities_general(G) ==
    {IF ~c THEN RaisedValue
     ELSE Returned([v \in G.V |->
              LET dist == bfs(G, <<v>>, v :> 0)
              IN  IF Cardinality(DOMAIN dist) # Cardinality(G.V) THEN inf
                  ELSE Max({dist[w] : w \in DOMAIN dist})])
        : c \in is_connected(G)}

\* The for loop of central_tree over ws = self.adj[u].
RECURSIVE central_for(_, _, _, _, _)
central_for(ws, u, visited, queue, tree_edges) ==
    IF ws = <<>>
    THEN [visited |-> visited, queue |-> queue, tree_edges |-> tree_edges]
    ELSE LET w == Head(ws)
         IN  IF w \notin visited
             THEN central_for(Tail(ws), u, visited \cup {w}, Append(queue, w),
                              tree_edges \cup {<<min(u, w), max(u, w)>>})
             ELSE central_for(Tail(ws), u, visited, queue, tree_edges)

\* The while loop of central_tree.  Yields tree_edges.
RECURSIVE central_loop(_, _, _, _)
central_loop(G, queue, visited, tree_edges) ==
    IF queue = <<>> THEN tree_edges
    ELSE LET u == Head(queue)
             r == central_for(G.adj[u], u, visited, Tail(queue), tree_edges)
         IN  central_loop(G, r.queue, r.visited, r.tree_edges)

\* The root central_tree picks: the smallest vertex of least eccentricity.
central_root(ecc) ==
    LET min_ecc == Min({ecc[v] : v \in DOMAIN ecc})
        centers == {v \in DOMAIN ecc : ecc[v] = min_ecc}
    IN  sortedV(centers)[1]

\* central_tree: ValueError unless is_connected() (min() raises it for a
\* graph without vertices); else the search tree from the root.
central_tree(G) ==
    UNION {IF ~c THEN {Raised}
           ELSE UNION {IF ecc.err \/ G.V = {} THEN {Raised}
                       ELSE LET root == central_root(ecc.val)
                            IN  GraphOf(G.V, central_loop(G, <<root>>, {root}, {}))
                       : ecc \in eccentricities_general(G)}
           : c \in is_connected(G)}

-----------------------------------------------------------------------------
(* The heap *)

\* The Graph a slot refers to, read through its three references.
Obj(H, s) ==
    [V   |-> H.V[H.ref[s].V],
     E   |-> H.E[H.ref[s].E],
     adj |-> H.adj[H.ref[s].adj]]

\* An in-place mutation of the Graph of slot s: each container the Graph
\* refers to gets its new contents.
Mutate(H, s, G) ==
    [bound |-> H.bound,
     ref |-> H.ref,
     V   |-> [H.V   EXCEPT ![H.ref[s].V]   = G.V],
     E   |-> [H.E   EXCEPT ![H.ref[s].E]   = G.E],
     adj |-> [H.adj EXCEPT ![H.ref[s].adj] = G.adj]]

\* s = Graph(...): the constructor makes three containers of its own
\* (set(vertices), set(), a new dict) and the slot is bound to the new object.
Bind(H, s, G) ==
    [bound |-> H.bound \cup {s},
     ref |-> [H.ref EXCEPT ![s] = [V |-> s, E |-> s, adj |-> s]],
     V   |-> [H.V   EXCEPT ![s] = G.V],
     E   |-> [H.E   EXCEPT ![s] = G.E],
     adj |-> [H.adj EXCEPT ![s] = G.adj]]

\* g = Graph(); h = Graph(); r is not assigned yet.
InitHeap ==
    [bound |-> {"g", "h"},
     ref |-> [s \in Slots |-> [V |-> s, E |-> s, adj |-> s]],
     V   |-> [s \in Slots |-> {}],
     E   |-> [s \in Slots |-> {}],
     adj |-> [s \in Slots |-> <<>>]]

\* What the client did last: the call, the graph variable it was made on,
\* the other operand of a binary transform (else the same variable), the
\* vertex arguments, whether it raised, and the value it returned.
NoCall ==
    [op |-> "none", slot |-> "g", other |-> "g", args |-> <<>>,
     err |-> FALSE, out |-> <<>>]

Call(op, s, args, err, out) ==
    [op |-> op, slot |-> s, other |-> s, args |-> args, err |-> err, out |-> out]

Call2(op, a, b, err) ==
    [op |-> op, slot |-> a, other |-> b, args |-> <<>>, err |-> err, out |-> <<>>]

\* r = <transform>: the variable r is bound to the returned Graph, or left
\* as it was when the call raises.
Return(H, results) ==
    {[heap |-> IF res.err THEN H ELSE Bind(H, "r", res.g), err |-> res.err]
        : res \in results}

union_call(H, a, b) == Return(H, union(Obj(H, a), Obj(H, b)))

intersection_call(H, a, b) == Return(H, intersection(Obj(H, a), Obj(H, b)))

symmetric_difference_call(H, a, b) ==
    Return(H, symmetric_difference(Obj(H, a), Obj(H, b)))

without_vertex_call(H, s, v) == Return(H, without_vertex(Obj(H, s), v))

\* without_edge discarding the pair from self.E and returning self.
without_edge_in_place(H, s, u, v) ==
    LET G == Obj(H, s)
        e == <<min(u, v), max(u, v)>>
    IN  IF ensure_vertex_raises(G, u) \/ ensure_vertex_raises(G, v) \/ e \notin G.E
        THEN {[heap |-> H, err |-> TRUE]}
        ELSE LET H1 == Mutate(H, s, [G EXCEPT !.E = G.E \ {e}])
             IN  {[heap |-> [H1 EXCEPT !.bound = @ \cup {"r"},
                                       !.ref["r"] = H.ref[s]],
                   err  |-> FALSE]}

without_edge_call(H, s, u, v) == Return(H, without_edge(Obj(H, s), u, v))

merge_vertices_call(H, s, v1, v2) ==
    Return(H, merge_vertices(Obj(H, s), v1, v2))

-----------------------------------------------------------------------------
(* The client's calls *)

Init ==
    /\ heap = InitHeap
    /\ last = NoCall
    /\ calls = 0

\* s.add_vertex(v)
AddVertex(s, v) ==
    /\ s \in heap.bound
    /\ calls < MaxCalls
    /\ heap' = Mutate(heap, s, add_vertex(Obj(heap, s), v))
    /\ last' = Call("add_vertex", s, <<v>>, FALSE, <<>>)
    /\ calls' = calls + 1

\* s.add_edge(u, v)
AddEdge(s, u, v) ==
    /\ s \in heap.bound
    /\ calls < MaxCalls
    /\ LET r == add_edge(Obj(heap, s), u, v)
       IN  /\ heap' = Mutate(heap, s, r.g)
           /\ last' = Call("add_edge", s, <<u, v>>, r.err, <<>>)
    /\ calls' = calls + 1

Build(slots) ==
    \E s \in slots :
        \/ \E v \in Vertex : AddVertex(s, v)
        \/ \E u, v \in Vertex : AddEdge(s, u, v)

\* M = s.adjacency_matrix()
AdjacencyMatrix(s) ==
    /\ last' = Call("adjacency_matrix", s, <<>>, FALSE,
                    adjacency_matrix(Obj(heap, s)))
    /\ UNCHANGED <<heap, calls>>

\* d = s.degrees()
Degrees(s) ==
    /\ last' = Call("degrees", s, <<>>, FALSE, degrees(Obj(heap, s)))
    /\ UNCHANGED <<heap, calls>>

\* Graph.from_adjacency_matrix(s.adjacency_matrix(), sorted(s.V))
RoundTripAdjacencyMatrix(s) ==
    /\ LET G == Obj(heap, s)
       IN  last' = Call("from_adjacency_matrix", s, <<>>, FALSE,
                        from_adjacency_matrix(adjacency_matrix(G), sortedV(G.V)))
    /\ UNCHANGED <<heap, calls>>

\* Graph.from_incidence_matrix(s.incidence_matrix(), sorted(s.V))
RoundTripIncidenceMatrix(s) ==
    /\ LET G == Obj(heap, s)
       IN  last' = Call("from_incidence_matrix", s, <<>>, FALSE,
                        from_incidence_matrix(incidence_matrix(G), sortedV(G.V)))
    /\ UNCHANGED <<heap, calls>>

\* Graph.from_adjacency_list(s.adjacency_list()).  The dict returned by
\* adjacency_list yields its keys in the order the vertices entered adj;
\* adj is modelled without that order, and every order of the keys is the
\* insertion order of some construction of the same graph.
RoundTripAdjacencyList(s) ==
    /\ LET G == Obj(heap, s)
       IN  \E keys \in IterationOrders(DOMAIN G.adj) :
               last' = Call("from_adjacency_list", s, <<>>, FALSE,
                            from_adjacency_list(adjacency_list(G), keys))
    /\ UNCHANGED <<heap, calls>>

Convert(s) ==
    \/ AdjacencyMatrix(s)
    \/ Degrees(s)
    \/ RoundTripAdjacencyMatrix(s)
    \/ RoundTripIncidenceMatrix(s)
    \/ RoundTripAdjacencyList(s)

\* One graph built call by call and converted at any point.
Next ==
    \/ Build({"g"})
    \/ Convert("g")

Spec == Init /\ [][Next]_vars

\* The label lists the client passes with a matrix of G: sorted(G.V) cut
\* to any length, or with one more label that is no vertex of G.
LabelLists(G) ==
    LET vs == sortedV(G.V)
    IN  {SubSeq(vs, 1, k) : k \in 0..Len(vs)}
            \cup {Append(vs, x) : x \in (Vertex \cup {MaxVertex + 1}) \ G.V}

\* Graph.from_adjacency_matrix(s.adjacency_matrix(), labels)
FromAdjacencyMatrix(s, labels) ==
    /\ LET r == from_adjacency_matrix(adjacency_matrix(Obj(heap, s)), labels)
       IN  last' = Call("from_adjacency_matrix", s, <<labels>>, r.err, r.g)
    /\ UNCHANGED <<heap, calls>>

\* Graph.from_incidence_matrix(s.incidence_matrix(), labels)
FromIncidenceMatrix(s, labels) ==
    /\ LET r == from_incidence_matrix(incidence_matrix(Obj(heap, s)), labels)
       IN  last' = Call("from_incidence_matrix", s, <<labels>>, r.err, r.g)
    /\ UNCHANGED <<heap, calls>>

\* One graph built call by call; at any point one of its matrices is read
\* back with a label list of the client's choice.
NextLabels ==
    \/ Build({"g"})
    \/ \E labels \in LabelLists(Obj(heap, "g")) :
           FromAdjacencyMatrix("g", labels)
    \/ \E labels \in LabelLists(Obj(heap, "g")) :
           FromIncidenceMatrix("g", labels)

SpecLabels == Init /\ [][NextLabels]_vars

\* r = a.union(b)
Union(a, b) ==
    /\ \E res \in union_call(heap, a, b) :
           heap' = res.heap /\ last' = Call2("union", a, b, res.err)
    /\ calls < MaxCalls
    /\ calls' = calls + 1

\* r = a.intersection(b)
Intersection(a, b) ==
    /\ \E res \in intersection_call(heap, a, b) :
           heap' = res.heap /\ last' = Call2("intersection", a, b, res.err)
    /\ calls < MaxCalls
    /\ calls' = calls + 1

\* r = a.symmetric_difference(b)
SymmetricDifference(a, b) ==
    /\ \E res \in symmetric_difference_call(heap, a, b) :
           heap' = res.heap /\ last' = Call2("symmetric_difference", a, b, res.err)
    /\ calls < MaxCalls
    /\ calls' = calls + 1

\* r = s.without_vertex(v)
WithoutVertex(s, v) ==
    /\ \E res \in without_vertex_call(heap, s, v) :
           heap' = res.heap
           /\ last' = Call("without_vertex", s, <<v>>, res.err, <<>>)
    /\ calls < MaxCalls
    /\ calls' = calls + 1

\* r = s.without_edge(u, v)
WithoutEdge(s, u, v) ==
    /\ \E res \in without_edge_call(heap, s, u, v) :
           heap' = res.heap
           /\ last' = Call("without_edge", s, <<u, v>>, res.err, <<>>)
    /\ calls < MaxCalls
    /\ calls' = calls + 1

\* r = s.merge_vertices(v1, v2)
MergeVertices(s, v1, v2) ==
    /\ \E res \in merge_vertices_call(heap, s, v1, v2) :
           heap' = res.heap
           /\ last' = Call("merge_vertices", s, <<v1, v2>>, res.err, <<>>)
    /\ calls < MaxCalls
    /\ calls' = calls + 1

\* The three accessors read on g and on h.
Serialize ==
    /\ LET G == Obj(heap, "g")
           H == Obj(heap, "h")
       IN  last' = Call("serialize", "g", <<>>, FALSE,
                        [matrix    |-> <<adjacency_matrix(G), adjacency_matrix(H)>>,
                         incidence |-> <<incidence_matrix(G), incidence_matrix(H)>>,
                         list      |-> <<adjacency_list(G), adjacency_list(H)>>])
    /\ UNCHANGED <<heap, calls>>

Transform ==
    \/ \E a, b \in {"g", "h"} :
        \/ Union(a, b)
        \/ Intersection(a, b)
        \/ SymmetricDifference(a, b)
    \/ \E s \in {"g", "h"} :
        \/ \E v \in Vertex : WithoutVertex(s, v)
        \/ \E u, v \in Vertex : WithoutEdge(s, u, v)
        \/ \E v1, v2 \in Vertex : MergeVertices(s, v1, v2)

\* Two graphs built call by call, transformed into a third at any point;
\* the third is built on like the other two.
NextPair ==
    \/ Build({"g", "h", "r"})
    \/ Transform

SpecPair == Init /\ [][NextPair]_vars

\* Two graphs built call by call, each in its own order, and serialized at
\* any point.
NextSerialize ==
    \/ Build({"g", "h"})
    \/ Serialize

SpecSerialize == Init /\ [][NextSerialize]_vars

-----------------------------------------------------------------------------
(* A client that builds one graph g and then makes one analysis call on it.
   The analysis calls leave the graph as it is, so a call made after others
   sees what it would see right after the build. *)

\* g.add_vertex(v) while building
GrowVertex(v) ==
    /\ last.op = "none"
    /\ heap' = Mutate(heap, "g", add_vertex(Obj(heap, "g"), v))
    /\ UNCHANGED <<last, calls>>

\* g.add_edge(u, v) while building
GrowEdge(u, v) ==
    /\ last.op = "none"
    /\ Cardinality(Obj(heap, "g").E) < MaxSize
    /\ LET r == add_edge(Obj(heap, "g"), u, v)
       IN  heap' = Mutate(heap, "g", r.g)
    /\ UNCHANGED <<last, calls>>

Grow ==
    \/ \E v \in Node : GrowVertex(v)
    \/ \E u, v \in Node : GrowEdge(u, v)

\* g.is_connected()
IsConnected ==
    /\ last.op = "none"
    /\ \E c \in is_connected(Obj(heap, "g")) :
           last' = Call("is_connected", "g", <<>>, FALSE, c)
    /\ UNCHANGED <<heap, calls>>

\* g.is_eulerian()
IsEulerian ==
    /\ last.op = "none"
    /\ \E c \in is_eulerian(Obj(heap, "g")) :
           last' = Call("is_eulerian", "g", <<>>, FALSE, c)
    /\ UNCHANGED <<heap, calls>>

\* g.hamiltonian_cycle() and g.has_hamiltonian_cycle()
HamiltonianCycle ==
    /\ last.op = "none"
    /\ last' = Call("hamiltonian_cycle", "g", <<>>, FALSE,
                    [cycle |-> hamiltonian_cycle(Obj(heap, "g")),
                     has   |-> has_hamiltonian_cycle(Obj(heap, "g"))])
    /\ UNCHANGED <<heap, calls>>

\* g.vertex_eccentricities(), g.radius() and g.find_centers()
FindCenters ==
    /\ last.op = "none"
    /\ \E ecc \in vertex_eccentricities(Obj(heap, "g")),
          rad \in radius(Obj(heap, "g")),
          cen \in find_centers(Obj(heap, "g")) :
           last' = Call("find_centers", "g", <<>>, cen.err,
                        [ecc |-> ecc, radius |-> rad, centers |-> cen])
    /\ UNCHANGED <<heap, calls>>

\* g.find_spanning_tree()
FindSpanningTree ==
    /\ last.op = "none"
    /\ \E t \in find_spanning_tree(Obj(heap, "g")) :
           last' = Call("find_spanning_tree", "g", <<>>, t.err, t.g)
    /\ UNCHANGED <<heap, calls>>

\* g.central_tree()
CentralTree ==
    /\ last.op = "none"
    /\ \E t \in central_tree(Obj(heap, "g")) :
           last' = Call("central_tree", "g", <<>>, t.err, t.g)
    /\ UNCHANGED <<heap, calls>>

NextProperty ==
    \/ Grow
    \/ IsConnected
    \/ IsEulerian
    \/ HamiltonianCycle

SpecProperty == Init /\ [][NextProperty]_vars

NextTree ==
    \/ Grow
    \/ FindCenters
    \/ FindSpanningTree
    \/ CentralTree

SpecTree == Init /\ [][NextTree]_vars

\* The vertices joined to v by a path over the edges in E.
RECURSIVE Component(_, _)
Component(E, S) ==
    LET T == S \cup {e[2] : e \in {f \in E : f[1] \in S}}
              \cup {e[1] : e \in {f \in E : f[2] \in S}}
    IN  IF T = S THEN S ELSE Component(E, T)

\* The edge sets of the spanning trees of G: |V| - 1 edges of G that join
\* every vertex of G to every other.
SpanningTrees(G) ==
    {T \in SUBSET G.E :
        /\ G.V # {}
        /\ Cardinality(T) = Cardinality(G.V) - 1
        /\ \A v \in G.V : Component(T, {v}) = G.V}

\* g.k_spanning_trees(base_tree, k) for a spanning tree base_tree of g
KSpanningTrees(base_E, k) ==
    /\ last.op = "none"
    /\ base_E \in SpanningTrees(Obj(heap, "g"))
    /\ \E r \in k_spanning_trees(Obj(heap, "g"), base_E, k) :
           last' = Call("k_spanning_trees", "g", <<base_E, k>>, r.err, r)
    /\ UNCHANGED <<heap, calls>>

NextEnumerate ==
    \/ Grow
    \/ \E base_E \in SUBSET Obj(heap, "g").E, k \in 0..MaxK :
           KSpanningTrees(base_E, k)

SpecEnumerate == Init /\ [][NextEnumerate]_vars

\* The graphs the client passes as A1 and A2: a graph without vertices, a
\* graph of one vertex (of g or not), or a graph of one edge of g.
Pieces(G) ==
    {EmptyGraph}
        \cup {add_vertex(EmptyGraph, v) : v \in Node}
        \cup {add_edge(EmptyGraph, e[1], e[2]).g : e \in G.E}

\* g.distance_between_trees(A1, A2)
DistanceBetweenTrees(A1, A2) ==
    /\ last.op = "none"
    /\ \E d \in distance_between_trees(Obj(heap, "g"), A1, A2) :
           last' = Call("distance_between_trees", "g", <<A1, A2>>, d.err, d)
    /\ UNCHANGED <<heap, calls>>

NextDistance ==
    \/ Grow
    \/ \E A1, A2 \in Pieces(Obj(heap, "g")) : DistanceBetweenTrees(A1, A2)

SpecDistance == Init /\ [][NextDistance]_vars

\* The client of the calls that state a precondition: after the build, one
\* of them is made on g, whether or not g meets the precondition.
NextPrecondition ==
    \/ Grow
    \/ FindCenters
    \/ FindSpanningTree
    \/ CentralTree
    \/ \E A1, A2 \in Pieces(Obj(heap, "g")) : DistanceBetweenTrees(A1, A2)

SpecPrecondition == Init /\ [][NextPrecondition]_vars

\* g.simple_path(start, goal)
SimplePath(start, goal) ==
    /\ last.op = "none"
    /\ LET p == simple_path(Obj(heap, "g"), start, goal)
       IN  last' = Call("simple_path", "g", <<start, goal>>, p.err, p)
    /\ UNCHANGED <<heap, calls>>

\* g.cycle_containing(v)
CycleContaining(v) ==
    /\ last.op = "none"
    /\ LET c == cycle_containing(Obj(heap, "g"), v)
       IN  last' = Call("cycle_containing", "g", <<v>>, c.err, c)
    /\ UNCHANGED <<heap, calls>>

\* g.fundamental_cycle((u, v))
FundamentalCycle(u, v) ==
    /\ last.op = "none"
    /\ LET c == fundamental_cycle(Obj(heap, "g"), <<u, v>>)
       IN  last' = Call("fundamental_cycle", "g", <<u, v>>, c.err, c)
    /\ UNCHANGED <<heap, calls>>

\* The client of the searches: after the build, a path between two
\* vertices, a cycle from a vertex, or the cycle of an edge is asked for.
NextSearch ==
    \/ Grow
    \/ \E start, goal \in Node : SimplePath(start, goal)
    \/ \E v \in Node : CycleContaining(v)
    \/ \E u, v \in Node : u < v /\ FundamentalCycle(u, v)

SpecSearch == Init /\ [][NextSearch]_vars

\* The graphs the client passes as tree_a1: g itself, or a spanning tree
\* find_spanning_tree() returned for it.
Candidates(G) ==
    {G} \cup {t.g : t \in {r \in find_spanning_tree(G) : ~r.err}}

\* g.is_tree()
TestIsTree ==
    /\ last.op = "none"
    /\ \E t \in is_tree(Obj(heap, "g")) :
           last' = Call("is_tree", "g", <<>>, FALSE, t)
    /\ UNCHANGED <<heap, calls>>

\* g.is_subgraph_tree(tree_a1)
TestIsSubgraphTree(tree_a1) ==
    /\ last.op = "none"
    /\ \E t \in is_subgraph_tree(Obj(heap, "g"), tree_a1) :
           last' = Call("is_subgraph_tree", "g", <<tree_a1>>, FALSE, t)
    /\ UNCHANGED <<heap, calls>>

\* g.is_spanning_tree(tree_a1)
TestIsSpanningTree(tree_a1) ==
    /\ last.op = "none"
    /\ \E t \in is_spanning_tree(Obj(heap, "g"), tree_a1) :
           last' = Call("is_spanning_tree", "g", <<tree_a1>>, FALSE, t)
    /\ UNCHANGED <<heap, calls>>

\* The client of the tree tests.
NextTreeTest ==
    \/ Grow
    \/ TestIsTree
    \/ \E tree_a1 \in Candidates(Obj(heap, "g")) : TestIsSubgraphTree(tree_a1)
    \/ \E tree_a1 \in Candidates(Obj(heap, "g")) : TestIsSpanningTree(tree_a1)

SpecTreeTest == Init /\ [][NextTreeTest]_vars

\* The graph with the V and E of G that h = Graph() becomes when the edges
\* are added to it in ascending order; g holds them in the order of its
\* own build, which is any order.
Rebuilt(G) == Graph(G.V, sortedE(G.E)).g

\* The outcomes of a call that returns a Graph, each by its V and E.
Outcomes(ts) == {[err |-> t.err, V |-> t.g.V, E |-> t.g.E] : t \in ts}

\* The same call made on g and on h, h being built as H: what each of the
\* two calls returned.
OnBoth(op, H, args, on_g, on_h) ==
    /\ last.op = "none"
    /\ heap' = Mutate(heap, "h", H)
    /\ last' = [Call(op, "g", args, FALSE, [g |-> on_g, h |-> on_h])
                    EXCEPT !.other = "h"]
    /\ UNCHANGED calls

\* g.simple_path(start, goal) and h.simple_path(start, goal)
SimplePathOnBoth(H, start, goal) ==
    OnBoth("simple_path", H, <<start, goal>>,
           simple_path(Obj(heap, "g"), start, goal), simple_path(H, start, goal))

\* g.cycle_containing(v) and h.cycle_containing(v)
CycleContainingOnBoth(H, v) ==
    OnBoth("cycle_containing", H, <<v>>,
           cycle_containing(Obj(heap, "g"), v), cycle_containing(H, v))

\* g.hamiltonian_cycle() and h.hamiltonian_cycle()
HamiltonianCycleOnBoth(H) ==
    OnBoth("hamiltonian_cycle", H, <<>>,
           hamiltonian_cycle(Obj(heap, "g")), hamiltonian_cycle(H))

\* g.find_spanning_tree() and h.find_spanning_tree()
FindSpanningTreeOnBoth(H) ==
    OnBoth("find_spanning_tree", H, <<>>,
           Outcomes(find_spanning_tree(Obj(heap, "g"))),
           Outcomes(find_spanning_tree(H)))

\* g.central_tree() and h.central_tree()
CentralTreeOnBoth(H) ==
    OnBoth("central_tree", H, <<>>,
           Outcomes(central_tree(Obj(heap, "g"))), Outcomes(central_tree(H)))

\* The client of two graphs with the same vertices and edges, the edges
\* added in two orders: one call is made on both.
NextOrder ==
    \/ Grow
    \/ \E start, goal \in Node :
           SimplePathOnBoth(Rebuilt(Obj(heap, "g")), start, goal)
    \/ \E v \in Node : CycleContainingOnBoth(Rebuilt(Obj(heap, "g")), v)
    \/ HamiltonianCycleOnBoth(Rebuilt(Obj(heap, "g")))
    \/ FindSpanningTreeOnBoth(Rebuilt(Obj(heap, "g")))
    \/ CentralTreeOnBoth(Rebuilt(Obj(heap, "g")))

SpecOrder == Init /\ [][NextOrder]_vars

-----------------------------------------------------------------------------
(* Properties of a graph built by add_vertex and add_edge *)

\* The graph the client builds.
G0 == Obj(heap, "g")

\* The graph the last call was made on.
Target == Obj(heap, last.slot)

\* The unordered pair {u, v} is an edge stored in E.
Joined(G, u, v) == <<u, v>> \in G.E \/ <<v, u>> \in G.E

\* The place of v among the vertices of G in ascending order.
Rank(G, v) == Cardinality({w \in G.V : w < v}) + 1

RECURSIVE SumOver(_, _)
SumOver(f, S) ==
    IF S = {} THEN 0
    ELSE LET x == CHOOSE y \in S : TRUE IN f[x] + SumOver(f, S \ {x})

RoundTrips ==
    {"from_adjacency_matrix", "from_incidence_matrix", "from_adjacency_list"}

\* C1: after any sequence of add_vertex and add_edge calls on an empty Graph
\* (rejected add_edge(u, u) calls included) every pair stored in E has its
\* first endpoint strictly below its second (no self-loop, no pair in both
\* orientations) and both endpoints in V.
C1_EdgesCanonicalInV ==
    \A e \in G0.E :
        /\ e[1] < e[2]
        /\ e[1] \in G0.V
        /\ e[2] \in G0.V

\* An edge given as (larger, smaller) has just been stored beside another.
C1_Witness ==
    /\ last.op = "add_edge"
    /\ ~last.err
    /\ last.args[1] > last.args[2]
    /\ <<last.args[2], last.args[1]>> \in G0.E
    /\ Cardinality(G0.E) >= 2

\* C2: after any sequence of add_vertex and add_edge calls (edges re-added
\* in either orientation included) the keys of adj are exactly V, no list
\* adj[v] repeats an entry, w is in adj[v] exactly when the canonical pair
\* of (v, w) is in E, and the values of degrees() add up to 2 * |E|.
C2_AdjMirrorsE ==
    /\ DOMAIN G0.adj = G0.V
    /\ \A v \in G0.V :
        /\ \A i, j \in 1..Len(G0.adj[v]) :
               i # j => G0.adj[v][i] # G0.adj[v][j]
        /\ \A w \in Vertex :
               w \in Range(G0.adj[v])
                   <=> <<IF v <= w THEN v ELSE w, IF v <= w THEN w ELSE v>> \in G0.E
    /\ last.op = "degrees" =>
           /\ DOMAIN last.out = G0.V
           /\ SumOver(last.out, DOMAIN last.out) = 2 * Cardinality(G0.E)

\* degrees() is read on a graph of two edges built with more calls than the
\* two add_edge calls that make it.
C2_Witness ==
    /\ last.op = "degrees"
    /\ Cardinality(G0.E) = 2
    /\ calls > Cardinality(G0.E)

\* C3: add_edge(u, u) reports an error for every label u and leaves V, E
\* and adj of every graph as they were; u is not added to V.
C3_SelfLoopRejected ==
    [][(last'.op = "add_edge" /\ calls' = calls + 1
            /\ last'.args[1] = last'.args[2])
        => (last'.err /\ heap' = heap)]_vars

\* add_edge(u, u) was rejected on a graph with an edge, u absent from V.
C3_Witness ==
    /\ last.op = "add_edge"
    /\ last.args[1] = last.args[2]
    /\ last.err
    /\ last.args[1] \notin G0.V
    /\ G0.E # {}

\* C4: the graph rebuilt from adjacency_matrix() or incidence_matrix() with
\* the labels sorted(V), or from adjacency_list(), has the edge set of the
\* graph it was taken from.
C4_RoundTripKeepsE ==
    last.op \in RoundTrips =>
        /\ ~last.out.err
        /\ last.out.g.E = Target.E

\* A round trip through the incidence matrix of a graph with an edge and an
\* isolated vertex.
C4_Witness ==
    /\ last.op = "from_incidence_matrix"
    /\ Target.E # {}
    /\ \E v \in Target.V : Target.adj[v] = <<>>
    /\ last.out.g.E = Target.E

\* C5: the graph rebuilt from adjacency_matrix() or incidence_matrix() with
\* the labels sorted(V), or from adjacency_list(), has the vertex set of
\* the graph it was taken from.
C5_RoundTripKeepsV ==
    last.op \in RoundTrips =>
        /\ ~last.out.err
        /\ last.out.g.V = Target.V

\* C6: adjacency_matrix() of a graph with n vertices is an n x n matrix of
\* 0/1 entries, symmetric, with a zero diagonal, whose entry (i, j) is 1
\* exactly when the i-th and j-th vertices in ascending order are joined by
\* an edge.
C6_AdjacencyMatrixShape ==
    last.op = "adjacency_matrix" =>
        LET M == last.out
            n == Cardinality(Target.V)
        IN  /\ DOMAIN M = 1..n
            /\ \A i \in 1..n :
                /\ DOMAIN M[i] = 1..n
                /\ M[i][i] = 0
                /\ \A j \in 1..n : M[i][j] \in {0, 1} /\ M[i][j] = M[j][i]
            /\ \A u, v \in Target.V :
                   M[Rank(Target, u)][Rank(Target, v)] = 1 <=> Joined(Target, u, v)

\* The matrix of a graph with three vertices and two edges was taken.
C6_Witness ==
    /\ last.op = "adjacency_matrix"
    /\ Cardinality(Target.V) = 3
    /\ Cardinality(Target.E) = 2

-----------------------------------------------------------------------------
(* Properties of two graphs and of the graph a transform returns *)

H0 == Obj(heap, "h")

R0 == Obj(heap, "r")

\* The second operand of the last binary transform.
Other == Obj(heap, last.other)

Transforms ==
    {"union", "intersection", "symmetric_difference",
     "without_vertex", "without_edge", "merge_vertices"}

\* C7: two graphs built by different call sequences that end with the same
\* V and the same E give equal adjacency_matrix(), incidence_matrix() and
\* adjacency_list() values.
C7_SerializationIgnoresHistory ==
    (last.op = "serialize" /\ G0.V = H0.V /\ G0.E = H0.E) =>
        /\ last.out.matrix[1] = last.out.matrix[2]
        /\ last.out.incidence[1] = last.out.incidence[2]
        /\ last.out.list[1] = last.out.list[2]

\* The accessors were read on two graphs with the same V and E whose
\* neighbour lists are in different orders.
C7_Witness ==
    /\ last.op = "serialize"
    /\ G0.V = H0.V
    /\ G0.E = H0.E
    /\ G0.adj # H0.adj

\* C8: a transform leaves V, E and adj of g and h as they were, whether it
\* returns or raises, and an add_vertex or add_edge call on one graph
\* variable (the returned graph included) leaves the graph of every other
\* variable as it was.
C8_OperandsUntouched ==
    [][/\ last'.op \in Transforms =>
            /\ Obj(heap, "g")' = Obj(heap, "g")
            /\ Obj(heap, "h")' = Obj(heap, "h")
       /\ last'.op \in {"add_vertex", "add_edge"} =>
            \A s \in Slots \ {last'.slot} : Obj(heap, s)' = Obj(heap, s)
      ]_vars

\* An edge was added to the graph a transform returned, whose operand has
\* edges of its own.
C8_Witness ==
    /\ last.op = "add_edge"
    /\ last.slot = "r"
    /\ ~last.err
    /\ G0.E # {}
    /\ R0.E # G0.E
    /\ Cardinality(R0.E) >= 2

\* C9: G.intersection(H) has the vertex set G.V \cap H.V and the edge set
\* G.E \cap H.E; H.intersection(G) has the same V and E; G.intersection(G)
\* has V = G.V and E = G.E.
C9_Intersection ==
    last.op = "intersection" =>
        /\ ~last.err
        /\ R0.V = Target.V \cap Other.V
        /\ R0.E = Target.E \cap Other.E
        /\ \A swapped \in intersection(Other, Target) :
               ~swapped.err /\ swapped.g.V = R0.V /\ swapped.g.E = R0.E
        /\ last.slot = last.other => (R0.V = Target.V /\ R0.E = Target.E)

\* A graph was intersected with another that shares one of its edges and
\* lacks one of its edges and one of its vertices.
C9_Witness ==
    /\ last.op = "intersection"
    /\ R0.E # {}
    /\ R0.E # Target.E
    /\ R0.V # Target.V

\* C10: G.symmetric_difference(H) has as edge set the edges in exactly one
\* of G.E and H.E and as vertex set G.V \cup H.V; G.symmetric_difference(G)
\* has no edge and the vertex set G.V.
C10_SymmetricDifference ==
    last.op = "symmetric_difference" =>
        /\ ~last.err
        /\ R0.E = {e \in Target.E \cup Other.E : ~(e \in Target.E /\ e \in Other.E)}
        /\ R0.V = Target.V \cup Other.V
        /\ last.slot = last.other => (R0.E = {} /\ R0.V = Target.V)

\* The symmetric difference of two graphs that share an edge, one of which
\* has an edge of its own, was taken.
C10_Witness ==
    /\ last.op = "symmetric_difference"
    /\ Target.E \cap Other.E # {}
    /\ R0.E # {}
    /\ R0.V # UNION {{e[1], e[2]} : e \in R0.E}

\* C11: for v in V, without_vertex(v) returns a graph with the vertex set
\* V \ {v} and the edges of E that do not have v as an endpoint; for an edge
\* of G given as (u, v) in either orientation, without_edge(u, v) returns a
\* graph with the vertex set V and the edge set E minus that canonical
\* edge; both results are subgraphs of G.
C11_RemovalExact ==
    /\ (last.op = "without_vertex" /\ last.args[1] \in Target.V) =>
           /\ ~last.err
           /\ R0.V = Target.V \ {last.args[1]}
           /\ R0.E = {e \in Target.E : e[1] # last.args[1] /\ e[2] # last.args[1]}
           /\ is_subgraph_of(R0, Target)
    /\ (last.op = "without_edge" /\ Joined(Target, last.args[1], last.args[2])) =>
           /\ ~last.err
           /\ R0.V = Target.V
           /\ R0.E = Target.E \ {<<last.args[1], last.args[2]>>,
                                  <<last.args[2], last.args[1]>>}
           /\ Cardinality(R0.E) = Cardinality(Target.E) - 1
           /\ is_subgraph_of(R0, Target)

\* A vertex with two edges was removed from a triangle.
C11_Witness ==
    /\ last.op = "without_vertex"
    /\ ~last.err
    /\ Cardinality(Target.E) = 3
    /\ Cardinality(R0.E) = 1

\* C12: for v1 and v2 in V, merge_vertices(v1, v2) returns a graph whose
\* vertex set is V without v2, with no self-loop, in which x is adjacent to
\* v1 exactly when x is neither v1 nor v2 and x was adjacent to v1 or to v2,
\* and which keeps every edge that touches neither v1 nor v2.
C12_MergeVertices ==
    (last.op = "merge_vertices" /\ last.args[1] \in Target.V
                                /\ last.args[2] \in Target.V) =>
        LET v1 == last.args[1]
            v2 == last.args[2]
        IN  /\ ~last.err
            /\ R0.V = Target.V \ {v2}
            /\ \A e \in R0.E : e[1] # e[2]
            /\ \A x \in Vertex :
                   Joined(R0, x, v1) <=>
                       /\ x \notin {v1, v2}
                       /\ Joined(Target, x, v1) \/ Joined(Target, x, v2)
            /\ \A e \in Target.E :
                   ({e[1], e[2]} \cap {v1, v2} = {}) => e \in R0.E

-----------------------------------------------------------------------------
(* Properties of the analysis calls *)

\* The degree of v counted in E.
Deg(G, v) == Cardinality({e \in G.E : v \in {e[1], e[2]}})

\* Every two vertices of S are joined by a path in G.
AllJoined(G, S) == \A v \in S : S \subseteq Component(G.E, {v})

\* A cycle graph: at least three vertices, each of degree 2, all joined.
IsCycleGraph(G) ==
    /\ Cardinality(G.V) >= 3
    /\ \A v \in G.V : Deg(G, v) = 2
    /\ AllJoined(G, G.V)

\* A path graph: at least two vertices, all joined by |V| - 1 edges, none
\* of degree above 2.
IsPathGraph(G) ==
    /\ Cardinality(G.V) >= 2
    /\ Cardinality(G.E) = Cardinality(G.V) - 1
    /\ \A v \in G.V : Deg(G, v) <= 2
    /\ AllJoined(G, G.V)

\* C13: is_connected() is true exactly when every two vertices of degree at
\* least 1 are joined by a path (so it is true for a graph without vertices
\* or without edges), whichever non-isolated vertex the traversal starts
\* from.
C13_IsConnected ==
    last.op = "is_connected" =>
        /\ last.out = AllJoined(G0, {v \in G0.V : Deg(G0, v) >= 1})
        /\ is_connected(G0) = {last.out}
        /\ G0.E = {} => last.out

\* is_connected() was read on a graph of two separate edges and an isolated
\* vertex.
C13_Witness ==
    /\ last.op = "is_connected"
    /\ ~last.out
    /\ Cardinality(G0.E) = 2
    /\ Cardinality(G0.V) = 5

\* C14: is_eulerian() is true exactly when is_connected() is true and every
\* non-isolated vertex has even degree; it is true for every cycle graph on
\* three or more vertices and false for every path graph on two or more.
C14_IsEulerian ==
    last.op = "is_eulerian" =>
        /\ last.out =
               /\ \A c \in is_connected(G0) : c
               /\ \A v \in G0.V : Deg(G0, v) >= 1 => Deg(G0, v) % 2 = 0
        /\ IsCycleGraph(G0) => last.out
        /\ IsPathGraph(G0) => ~last.out

\* is_eulerian() was read on a cycle of four vertices.
C14_Witness ==
    /\ last.op = "is_eulerian"
    /\ last.out
    /\ IsCycleGraph(G0)
    /\ Cardinality(G0.V) = 4

\* p lists every vertex of G once, consecutive entries are adjacent, and
\* the last entry is adjacent to the first.
IsHamiltonianOrder(G, p) ==
    /\ p # <<>>
    /\ Joined(G, p[Len(p)], p[1])
    /\ \A i \in 1..(Len(p) - 1) : Joined(G, p[i], p[i + 1])

\* C15: hamiltonian_cycle() returns a sequence exactly when G has a closed
\* walk that visits every vertex once before returning to its start, and
\* None otherwise; a returned sequence has |V| + 1 entries, begins and ends
\* at the smallest vertex, its first |V| entries are distinct and cover V,
\* and consecutive entries are adjacent; has_hamiltonian_cycle() is true
\* exactly when a sequence is returned.
C15_HamiltonianCycle ==
    last.op = "hamiltonian_cycle" =>
        LET r == last.out.cycle
            n == Cardinality(G0.V)
        IN  /\ r.some <=> \E p \in IterationOrders(G0.V) : IsHamiltonianOrder(G0, p)
            /\ r.some =>
                   /\ Len(r.val) = n + 1
                   /\ r.val[1] = Min(G0.V)
                   /\ r.val[n + 1] = Min(G0.V)
                   /\ {r.val[i] : i \in 1..n} = G0.V
                   /\ \A i \in 1..n : Joined(G0, r.val[i], r.val[i + 1])
            /\ last.out.has = r.some

\* A tree: a graph with a vertex in which every two vertices are joined by
\* exactly one path.
IsTree(G) ==
    /\ G.V # {}
    /\ AllJoined(G, G.V)
    /\ Cardinality(G.E) = Cardinality(G.V) - 1

\* The path 1 - 2 - ... - n.
PathGraphE(n) == {<<i, i + 1>> : i \in 1..(n - 1)}

\* C16: for a tree, find_centers() returns in ascending order exactly the
\* vertices whose eccentricity in vertex_eccentricities() equals radius():
\* one vertex or two adjacent vertices (the path of five vertices gives its
\* middle vertex, the path of four its two middle vertices).
C16_FindCenters ==
    (last.op = "find_centers" /\ IsTree(G0)) =>
        LET ecc     == last.out.ecc
            rad     == last.out.radius
            centers == last.out.centers
        IN  /\ ~ecc.err /\ ~rad.err /\ ~centers.err /\ ~centers.loops
            /\ centers.val = sortedV({v \in G0.V : ecc.val[v] = rad.val})
            /\ Len(centers.val) \in {1, 2}
            /\ Len(centers.val) = 2 =>
                   Joined(G0, centers.val[1], centers.val[2])
            /\ (G0.V = 1..5 /\ G0.E = PathGraphE(5)) => centers.val = <<3>>
            /\ (G0.V = 1..4 /\ G0.E = PathGraphE(4)) => centers.val = <<2, 3>>

\* The centers of a path of five vertices were computed.
C16_Witness ==
    /\ last.op = "find_centers"
    /\ IsPathGraph(G0)
    /\ Cardinality(G0.V) = 5
    /\ Len(last.out.centers.val) = 1

\* T has the vertices of G and |V| - 1 edges, all of them edges of G, and
\* joins every two vertices.
IsSpanningTreeOf(T, G) ==
    /\ T.V = G.V
    /\ Cardinality(T.E) = Cardinality(G.V) - 1
    /\ T.E \subseteq G.E
    /\ AllJoined(T, G.V)

\* C17: for a graph with at least one vertex on which is_connected() is
\* true, find_spanning_tree() returns a graph with the vertex set V and
\* exactly |V| - 1 edges, all edges of G, in which every two vertices are
\* joined by a path.
C17_FindSpanningTree ==
    (last.op = "find_spanning_tree" /\ G0.V # {}
        /\ \A c \in is_connected(G0) : c) =>
        /\ ~last.err
        /\ IsSpanningTreeOf(last.out, G0)

\* The vertices at most d edges away from a vertex of S.
RECURSIVE Ball(_, _, _)
Ball(E, S, d) ==
    IF d = 0 THEN S
    ELSE Ball(E, S \cup {e[2] : e \in {f \in E : f[1] \in S}}
                   \cup {e[1] : e \in {f \in E : f[2] \in S}}, d - 1)

\* The eccentricity of v in G: the least d within which v reaches every
\* vertex, inf when it does not reach them all.
Ecc(G, v) ==
    IF Component(G.E, {v}) # G.V THEN inf
    ELSE Min({d \in 0..Cardinality(G.V) : Ball(G.E, {v}, d) = G.V})

\* C20: for a non-empty graph on which is_connected() is true,
\* central_tree() returns a spanning tree of G whose height measured from
\* the smallest vertex of minimum eccentricity equals that eccentricity, and
\* no spanning tree of G has a smaller height from any root.
C20_CentralTree ==
    (last.op = "central_tree" /\ G0.V # {}
        /\ \A c \in is_connected(G0) : c) =>
        LET min_ecc == Min({Ecc(G0, v) : v \in G0.V})
            root    == Min({v \in G0.V : Ecc(G0, v) = min_ecc})
        IN  /\ ~last.err
            /\ IsSpanningTreeOf(last.out, G0)
            /\ Ecc(last.out, root) = min_ecc
            /\ \A T \in SpanningTrees(G0), v \in G0.V :
                   Ecc([V |-> G0.V, E |-> T], v) >= min_ecc

\* C18: for a connected graph G, a spanning tree base_tree of G and k >= 0,
\* k_spanning_trees(base_tree, k) returns at most k graphs with pairwise
\* different edge sets, each a spanning tree of G, so that
\* G.is_spanning_tree(t) is true.
C18_KSpanningTrees ==
    (last.op = "k_spanning_trees" /\ AllJoined(G0, G0.V)) =>
        LET k == last.args[2]
        IN  /\ ~last.err
            /\ Len(last.out.val) <= k
            /\ \A i, j \in 1..Len(last.out.val) :
                   i # j => last.out.val[i].E # last.out.val[j].E
            /\ \A i \in 1..Len(last.out.val) :
                   /\ IsSpanningTreeOf(last.out.val[i], G0)
                   /\ \A t \in GraphOf(last.out.val[i].V, last.out.val[i].E) :
                          ~t.err /\ is_spanning_tree(G0, t.g) = {TRUE}

\* The fewest edges on a path of G between a vertex of S1 and a vertex of
\* S2, or None when no vertex of S2 is joined to a vertex of S1.
Separation(G, S1, S2) ==
    IF Component(G.E, S1) \cap S2 = {} THEN None
    ELSE Some(Min({d \in 0..Cardinality(G.V) : Ball(G.E, S1, d) \cap S2 # {}}))

\* C19: for subgraphs A1 and A2 of G with non-empty vertex sets,
\* distance_between_trees(A1, A2) returns the minimum over a in A1 and b in
\* A2 of the number of edges of a shortest path between a and b in G (0
\* when they share a vertex), None when no vertex of A2 is reachable from
\* A1, and the same value with A1 and A2 exchanged.
C19_DistanceBetweenTrees ==
    (last.op = "distance_between_trees"
        /\ is_subgraph_of(last.args[1], G0) /\ last.args[1].V # {}
        /\ is_subgraph_of(last.args[2], G0) /\ last.args[2].V # {}) =>
        LET A1 == last.args[1]
            A2 == last.args[2]
        IN  /\ ~last.err
            /\ last.out.val = Separation(G0, A1.V, A2.V)
            /\ A1.V \cap A2.V # {} => last.out.val = Some(0)
            /\ \A d \in distance_between_trees(G0, A2, A1) :
                   ~d.err /\ d.val = last.out.val

\* The distance from a subgraph of one edge to a vertex two edges away from
\* its nearer endpoint was computed.
C19_Witness ==
    /\ last.op = "distance_between_trees"
    /\ ~last.err
    /\ Cardinality(last.args[1].V) = 2
    /\ last.out.val = Some(2)

-----------------------------------------------------------------------------
(* Properties of the matrix constructors given a label list *)

\* C22: from_adjacency_matrix(M, labels) and from_incidence_matrix(M, labels)
\* raise and return no graph whenever the number of labels differs from the
\* number of rows of M, whether the labels are too few or too many.
C22_LabelCount ==
    last.op \in {"from_adjacency_matrix", "from_incidence_matrix"}
        /\ Len(last.args) = 1
        /\ Len(last.args[1]) # Cardinality(G0.V)
    => last.err

-----------------------------------------------------------------------------
(* Properties of the calls that state a precondition *)

\* The call made in this step raised and left no value.
FailedStep(out) == last'.err /\ out = RaisedValue

\* C21: a call whose precondition does not hold raises, returns nothing and
\* leaves the graph as it was: find_centers, vertex_eccentricities and
\* radius when is_tree() is false, find_spanning_tree and central_tree when
\* is_connected() is false, distance_between_trees(A1, A2) when A1 or A2 is
\* not a subgraph of the graph.
C21_Preconditions ==
    [][/\ last'.op = "find_centers" /\ FALSE \in is_tree(G0)
            => /\ FailedStep(last'.out.centers)
               /\ last'.out.ecc = RaisedValue
               /\ last'.out.radius = RaisedValue
               /\ heap' = heap
       /\ last'.op \in {"find_spanning_tree", "central_tree"}
             /\ FALSE \in is_connected(G0)
            => last'.err /\ last'.out = Raised.g /\ heap' = heap
       /\ last'.op = "distance_between_trees"
             /\ (~is_subgraph_of(last'.args[1], G0)
                    \/ ~is_subgraph_of(last'.args[2], G0))
            => FailedStep(last'.out) /\ heap' = heap]_vars

\* distance_between_trees raised for an A2 that is no subgraph of a graph
\* with an edge, A1 being one.
C21_Witness ==
    /\ last.op = "distance_between_trees"
    /\ last.err
    /\ G0.E # {}
    /\ last.args[1].V # {}
    /\ is_subgraph_of(last.args[1], G0)
    /\ ~is_subgraph_of(last.args[2], G0)

-----------------------------------------------------------------------------
(* Properties of the searches *)

\* l repeats no entry.
NoRepeat(l) == \A i, j \in 1..Len(l) : i # j => l[i] # l[j]

\* Consecutive entries of l are joined by an edge of G.
Walk(G, l) == \A i \in 1..(Len(l) - 1) : Joined(G, l[i], l[i + 1])

\* C23: for vertices start and goal of G, simple_path(start, goal) returns
\* None exactly when no path joins start to goal; otherwise it returns a
\* list that begins at start, ends at goal, repeats no vertex and steps only
\* along edges of G; simple_path(v, v) is [v].
C23_SimplePath ==
    last.op = "simple_path" /\ last.args[1] \in G0.V /\ last.args[2] \in G0.V
    => LET start == last.args[1]
           goal  == last.args[2]
           p     == last.out.val
       IN  /\ ~last.err
           /\ ~p.some <=> goal \notin Component(G0.E, {start})
           /\ p.some => /\ Len(p.val) >= 1
                        /\ p.val[1] = start
                        /\ p.val[Len(p.val)] = goal
                        /\ NoRepeat(p.val)
                        /\ Walk(G0, p.val)
           /\ start = goal => p = Some(<<start>>)

\* A path of four vertices was returned after the search backed out of a
\* dead end: a vertex it visited is not on the path.
C23_Witness ==
    /\ last.op = "simple_path"
    /\ ~last.err
    /\ last.out.val.some
    /\ Len(last.out.val.val) = 4
    /\ \E w \in Component(G0.E, {last.args[1]}) : w \notin Range(last.out.val.val)
    /\ Cardinality(G0.E) = MaxSize


\* The connected component of v holds no cycle: it has one edge less than
\* it has vertices.
Acyclic(G, v) ==
    LET C == Component(G.E, {v})
    IN  Cardinality({e \in G.E : e[1] \in C}) = Cardinality(C) - 1

\* C24: for a vertex v of G, cycle_containing(v) returns None exactly when
\* the connected component of v has no cycle; otherwise it returns a list c
\* of at least 4 entries whose first and last entries are equal, whose
\* entries but the last are pairwise different, and which steps only along
\* edges of G.
C24_CycleContaining ==
    last.op = "cycle_containing" /\ last.args[1] \in G0.V
    => LET c == last.out.val
       IN  /\ ~last.err
           /\ ~c.some <=> Acyclic(G0, last.args[1])
           /\ c.some => /\ Len(c.val) >= 4
                        /\ c.val[1] = c.val[Len(c.val)]
                        /\ NoRepeat(SubSeq(c.val, 1, Len(c.val) - 1))
                        /\ Walk(G0, c.val)

\* A cycle of four vertices was returned.
C24_Witness ==
    /\ last.op = "cycle_containing"
    /\ ~last.err
    /\ last.out.val.some
    /\ Len(last.out.val.val) = 5

\* G is a spanning tree plus the edge e: every vertex is joined to every
\* other, e is an edge, and without e the edges form a tree on V.
TreePlusEdge(G, e) ==
    /\ e \in G.E
    /\ G.V # {}
    /\ Cardinality(G.E) = Cardinality(G.V)
    /\ \A v \in G.V : Component(G.E \ {e}, {v}) = G.V

\* C25: on a graph that is a spanning tree plus one edge e,
\* fundamental_cycle(e) returns the edges of the one cycle: every pair is
\* an edge of the graph, e is among them, none is listed twice, and
\* together they form a cycle.
C25_FundamentalCycle ==
    last.op = "fundamental_cycle" /\ TreePlusEdge(G0, <<last.args[1], last.args[2]>>)
    => LET e == <<last.args[1], last.args[2]>>
           c == last.out.val
       IN  /\ ~last.err
           /\ c.some
           /\ Range(c.val) \subseteq G0.E
           /\ e \in Range(c.val)
           /\ NoRepeat(c.val)
           /\ IsCycleGraph([V |-> UNION {{f[1], f[2]} : f \in Range(c.val)},
                            E |-> Range(c.val)])

\* C29: whenever cycle_containing(v) returns a cycle, v is one of its
\* vertices.
C29_CycleHoldsVertex ==
    last.op = "cycle_containing" /\ ~last.err /\ last.out.val.some
    => last.args[1] \in Range(last.out.val.val)


-----------------------------------------------------------------------------
(* Properties of the tree tests *)

\* No search from a vertex of G finds a cycle, and every two vertices of
\* G, those of degree 0 too, are joined by a path.
CycleFreeAndJoined(G) ==
    /\ \A v \in G.V : cycle_containing(G, v) = Returned(None)
    /\ AllJoined(G, G.V)

\* C27: a graph on which is_tree() returns True has no cycle
\* (cycle_containing(v) is None for every vertex v) and a path between
\* every two of its vertices; so has every tree_a1 accepted by
\* is_subgraph_tree or is_spanning_tree.
C27_AcceptedTrees ==
    /\ last.op = "is_tree" /\ last.out = TRUE => CycleFreeAndJoined(G0)
    /\ last.op \in {"is_subgraph_tree", "is_spanning_tree"} /\ last.out = TRUE
           => CycleFreeAndJoined(last.args[1])


\* C28: find_centers() returns on every graph on which is_tree() returns
\* True: each pass of the loop removes a leaf, so the number of vertices
\* left falls until it is at most 2.
C28_FindCentersReturns ==
    last.op = "find_centers" /\ TRUE \in is_tree(G0)
    => ~last.out.centers.loops

\* The edges a closed vertex list steps along, each as (min, max).
StepsOf(l) ==
    [i \in 1..(Len(l) - 1) |-> <<min(l[i], l[i + 1]), max(l[i], l[i + 1])>>]

\* C30: whenever has_hamiltonian_cycle() is True the graph has at least 3
\* vertices and the list hamiltonian_cycle() returns steps along |V|
\* pairwise different edges of the graph; the graph without vertices, a
\* single vertex and a single edge have no Hamiltonian cycle.
C30_HamiltonianCycle ==
    last.op = "hamiltonian_cycle" /\ last.out.has
    => /\ Cardinality(G0.V) >= 3
       /\ last.out.cycle.some
       /\ Len(StepsOf(last.out.cycle.val)) = Cardinality(G0.V)
       /\ Range(StepsOf(last.out.cycle.val)) \subseteq G0.E
       /\ NoRepeat(StepsOf(last.out.cycle.val))


-----------------------------------------------------------------------------
(* Properties of two graphs with the same vertices and edges *)

\* C26: when two graphs have the same V and E, their edges added in
\* different orders, then simple_path, cycle_containing, hamiltonian_cycle,
\* find_spanning_tree and central_tree return the same on both for the
\* same arguments.
C26_SameResult ==
    last.op \in {"simple_path", "cycle_containing", "hamiltonian_cycle",
                 "find_spanning_tree", "central_tree"}
        /\ Obj(heap, "h").V = G0.V /\ Obj(heap, "h").E = G0.E
    => last.out.g = last.out.h

====
